---- MODULE Spec2Model ----
(***************************************************************************)
(* The spectral waterfall client of kenneth-dashboard                      *)
(* (src/kenneth-dashboard/src/lib/WaterfallCanvas.svelte, lines 1-175):    *)
(* a Svelte component in legacy (non-runes) mode that owns one WebSocket,  *)
(* a reconnect timer, a canvas raster and the viewport props.              *)
(*                                                                         *)
(* One action per event-loop task that runs component code: the onMount    *)
(* callback, its cleanup, a prop update by the parent, a resize callback,  *)
(* the reconnect timer and the socket's open / message / close / error     *)
(* listeners.  Each action includes the reactive flush Svelte runs in the  *)
(* microtask that follows the task.                                        *)
(*                                                                         *)
(* Reactivity: a `$:` statement re-runs when a variable it references      *)
(* directly is invalidated.  `$: if (connected) sendConfig()` references   *)
(* `connected` only; centerHz and bandwidthHz are read inside sendConfig   *)
(* and are no dependencies of the statement.                               *)
(***************************************************************************)
EXTENDS Integers, Sequences, FiniteSets, TLC

(* ---------------------------- bounds ---------------------------------- *)

\* sockets the component may create in the full specification
MaxSockets == 3
\* sockets the component may create in the connection-only specification
MaxRetrySockets == 13
\* messages the direct calls of sendConfig may leave in one send buffer
MaxOutbox == 3
\* plotHeight prop (rows of the waterfall in CSS pixels); the source default is 260
PlotHeight == 2
\* largest clientWidth of the canvas element, in CSS pixels
MaxClientWidth == 2
\* how far below MIN_DBFS and above MAX_DBFS the sample values of SampleValues reach
SampleMargin == 3

(* ------------------------ program constants --------------------------- *)

MIN_DBFS == -120
MAX_DBFS == -20
BandwidthFloorHz == 2000000
BackoffBaseMs == 500
BackoffStepMs == 400
BackoffCapMs == 5000
DefaultFrameRateHz == 20

\* pixel values: an index into INFERNO_LUT (0..255), or the background fill #071126
BgPixel == -1

\* lines 44-76: the bytes of INFERNO_LUT, one source line per line (8 RGB triples each)
INFERNO_LUT ==
    <<
      0, 0, 4, 1, 0, 5, 1, 1, 6, 1, 1, 8, 2, 1, 9, 2, 2, 11, 2, 2, 13, 3, 3, 15,
      3, 3, 18, 4, 4, 20, 5, 4, 22, 6, 5, 24, 6, 5, 26, 7, 6, 28, 8, 7, 30, 9, 7, 32,
      10, 8, 34, 11, 9, 36, 12, 9, 38, 13, 10, 41, 14, 11, 43, 16, 11, 45, 17, 12, 47, 18, 13, 49,
      19, 13, 52, 20, 14, 54, 21, 14, 56, 22, 15, 59, 24, 15, 61, 25, 16, 63, 26, 16, 66, 28, 16, 68,
      29, 17, 71, 30, 17, 73, 32, 17, 75, 33, 17, 78, 34, 17, 80, 36, 18, 83, 37, 18, 85, 39, 18, 88,
      41, 17, 90, 42, 17, 92, 44, 17, 95, 45, 17, 97, 47, 17, 99, 49, 17, 101, 51, 16, 103, 52, 16, 105,
      54, 16, 107, 56, 15, 109, 57, 15, 111, 59, 15, 113, 61, 15, 114, 63, 15, 116, 64, 15, 117, 66, 15, 119,
      68, 15, 120, 69, 14, 122, 71, 14, 123, 73, 14, 124, 74, 14, 126, 76, 14, 127, 77, 14, 128, 79, 13, 129,
      81, 13, 130, 82, 13, 131, 84, 13, 132, 85, 13, 133, 87, 13, 134, 89, 13, 135, 90, 13, 136, 92, 13, 137,
      93, 13, 138, 95, 13, 139, 97, 13, 139, 98, 13, 140, 100, 13, 141, 101, 13, 141, 103, 13, 142, 105, 13, 142,
      106, 13, 143, 108, 14, 143, 109, 14, 144, 111, 14, 144, 113, 14, 144, 114, 14, 145, 116, 15, 145, 117, 15, 145,
      119, 15, 145, 120, 16, 145, 122, 16, 146, 124, 16, 146, 125, 17, 146, 127, 17, 146, 128, 17, 146, 130, 18, 146,
      132, 18, 146, 133, 18, 146, 135, 19, 146, 136, 19, 146, 138, 20, 146, 140, 20, 146, 141, 21, 146, 143, 21, 146,
      144, 22, 146, 146, 22, 145, 148, 23, 145, 149, 23, 145, 151, 24, 145, 152, 24, 144, 154, 25, 144, 156, 25, 144,
      157, 26, 143, 159, 27, 143, 160, 27, 142, 162, 28, 142, 163, 29, 141, 165, 29, 141, 167, 30, 140, 168, 31, 140,
      170, 31, 139, 171, 32, 139, 173, 33, 138, 175, 33, 137, 176, 34, 137, 178, 35, 136, 179, 36, 135, 181, 36, 135,
      183, 37, 134, 184, 38, 133, 186, 39, 133, 187, 40, 132, 189, 41, 131, 190, 42, 130, 192, 43, 129, 194, 43, 129,
      195, 44, 128, 197, 45, 127, 198, 46, 126, 200, 47, 125, 201, 48, 124, 203, 49, 123, 205, 50, 122, 206, 51, 121,
      208, 52, 120, 209, 53, 119, 211, 54, 118, 212, 55, 117, 214, 56, 116, 215, 57, 115, 217, 58, 114, 218, 60, 113,
      220, 61, 112, 221, 62, 111, 223, 63, 110, 224, 65, 109, 226, 66, 108, 227, 67, 107, 229, 68, 106, 230, 70, 105,
      231, 71, 104, 233, 72, 103, 234, 74, 101, 236, 75, 100, 237, 77, 99, 238, 78, 98, 240, 80, 97, 241, 81, 96,
      242, 83, 95, 244, 84, 94, 245, 86, 92, 246, 87, 91, 247, 89, 90, 249, 91, 89, 250, 92, 88, 251, 94, 87,
      252, 96, 85, 253, 97, 84, 254, 99, 83, 254, 101, 82, 255, 103, 80, 255, 105, 79, 255, 107, 78, 255, 109, 77,
      255, 111, 75, 255, 113, 74, 255, 115, 72, 255, 117, 71, 255, 119, 70, 255, 121, 68, 255, 123, 67, 255, 125, 65,
      255, 127, 64, 255, 129, 62, 255, 131, 61, 255, 133, 59, 255, 135, 58, 255, 137, 56, 255, 139, 55, 255, 141, 53,
      255, 143, 52, 254, 145, 50, 254, 148, 49, 254, 150, 47, 254, 152, 46, 254, 154, 44, 253, 156, 43, 253, 158, 41,
      253, 161, 40, 253, 163, 38, 252, 165, 37, 252, 167, 35, 252, 169, 34, 251, 172, 33, 251, 174, 31, 250, 176, 30,
      250, 178, 28, 249, 181, 27, 249, 183, 26, 248, 185, 24, 248, 187, 23, 247, 190, 22, 247, 192, 20, 246, 194, 19,
      246, 197, 18, 245, 199, 16, 244, 201, 15, 244, 204, 14, 243, 206, 13, 243, 208, 12, 242, 211, 10, 242, 213, 9,
      241, 215, 9, 240, 218, 8, 240, 220, 7, 239, 223, 6, 238, 225, 6, 238, 227, 5, 237, 230, 5, 236, 232, 4,
      236, 235, 4, 235, 237, 3, 234, 240, 3, 234, 242, 3, 233, 245, 3, 232, 247, 3, 232, 250, 3, 231, 252, 4
    >>

(* --------------------------- input sets ------------------------------- *)

\* center frequencies the parent passes (two of WATERFALL_PRESETS)
CenterChoices == {156800000, 156650000}
\* bandwidths: below the floor, at the floor, above the floor
BandwidthChoices == {1000000, 2000000, 5000000}
\* window.devicePixelRatio
PixelRatios == {1, 2}
ClientWidths == 1..MaxClientWidth

\* An inbound websocket message, after JSON.parse: parses = FALSE stands for data on
\* which JSON.parse (or the property access of line 129) throws.
Msg(parses, type, isArray, dbfs, hasRate, rate, hasSource, source) ==
    [parses |-> parses, type |-> type, dbfsIsArray |-> isArray, dbfs |-> dbfs,
     hasRate |-> hasRate, frame_rate_hz |-> rate, hasSource |-> hasSource, source |-> source]

NoMsg == Msg(FALSE, "", FALSE, <<>>, FALSE, 0, FALSE, "")

Messages ==
    { Msg(FALSE, "", FALSE, <<>>, FALSE, 0, FALSE, ""),                  \* not JSON
      Msg(TRUE, "ping", FALSE, <<>>, FALSE, 0, FALSE, ""),               \* {"type":"ping"}
      Msg(TRUE, "ping", TRUE, <<-20>>, FALSE, 0, FALSE, ""),             \* other type, array dbfs
      Msg(TRUE, "spectrum", FALSE, <<>>, TRUE, 10, TRUE, "bogus"),       \* dbfs not an array
      Msg(TRUE, "spectrum", TRUE, <<-120, -20>>, FALSE, 0, FALSE, ""),   \* frame, no metadata
      Msg(TRUE, "spectrum", TRUE, <<-70>>, TRUE, 10, TRUE, "sdr") }      \* frame with metadata

\* A spectrum frame without metadata
Frame(dbfs) == Msg(TRUE, "spectrum", TRUE, dbfs, FALSE, 0, FALSE, "")

\* Frames for the renderer: no sample; samples below, at, inside, at the end of and
\* above the dynamic range; a ramp of 50 samples, each with a table index of its own
RenderFrames ==
    { Frame(<<>>),
      Frame(<<-130>>),
      Frame(<<-10>>),
      Frame(<<-121, -120, -20, -19>>),
      Frame(<<-70, -22>>),
      Frame([i \in 1..50 |-> -120 + 2 * i]) }

\* requested bandwidths below the floor, besides the one of BandwidthChoices
LowBandwidths == {500000, 1500000}

\* frame rates a producer reports
FrameRates == {1, 2, 3, 1000}

\* frames with metadata: a frame rate, or a source label
MetaFrames ==
    { Msg(TRUE, "spectrum", TRUE, <<-70>>, TRUE, r, FALSE, "") : r \in FrameRates }
        \cup { Msg(TRUE, "spectrum", TRUE, <<-70>>, FALSE, 0, TRUE, "sdr") }

\* integer sample values: the dynamic range and a margin on either side of it
SampleValues == (MIN_DBFS - SampleMargin)..(MAX_DBFS + SampleMargin)

\* the sample values a frame pairs with the sample value v, none weaker than v:
\* v itself, the next one, the top of the dynamic range and the strongest one
Companions(v) ==
    {u \in {v, v + 1, MAX_DBFS, MAX_DBFS + SampleMargin} : u >= v /\ u \in SampleValues}

\* frames of two samples, the weaker one first
PairFrames == UNION { { Frame(<<v, u>>) : u \in Companions(v) } : v \in SampleValues }

\* a canvas as wide as on a real page, in CSS pixels
WideWidths == {100}

(* ----------------------------- helpers -------------------------------- *)

Min(a, b) == IF a < b THEN a ELSE b
Max(a, b) == IF a > b THEN a ELSE b

\* Math.round(p / q) for integers p >= 0, q > 0
RoundDiv(p, q) == (2 * p + q) \div (2 * q)

(* ----------------------------- state ---------------------------------- *)

VARIABLES
    phase,              \* "created" | "mounted" | "destroyed" (component lifecycle)
    centerHz,           \* prop
    bandwidthHz,        \* prop
    socket,             \* 0 = null, else the id of the WebSocket it references
    reconnectTimer,     \* 0 = null, else the handle setTimeout returned
    reconnectAttempts,
    connected,
    sourceMode,
    frameRateHz,
    leftHz, rightHz, visibleSeconds,   \* derived by `$:` statements
    canvasEl,           \* TRUE while bind:this holds the canvas element
    canvasWidth, canvasHeight,         \* canvasEl.width / canvasEl.height
    raster,             \* canvas bitmap: raster[y+1][x+1], row 1 is the top row
    \* the environment
    readyState,         \* readyState[s] of every WebSocket created so far
    outbox,             \* what socket.send() was given on the socket `socket` references
    timers,             \* pending timeouts: records [id, delay]
    timerCount,         \* handles handed out by setTimeout so far
    clientWidth,        \* canvasEl.clientWidth
    devicePixelRatio,   \* window.devicePixelRatio
    \* observation
    ev                  \* the task that ran last: its kind, its input, what it sent

vars == <<phase, centerHz, bandwidthHz, socket, reconnectTimer, reconnectAttempts,
          connected, sourceMode, frameRateHz, leftHz, rightHz, visibleSeconds,
          canvasEl, canvasWidth, canvasHeight, raster, readyState, outbox, timers,
          timerCount, clientWidth, devicePixelRatio, ev>>

viewVars == <<centerHz, bandwidthHz, leftHz, rightHz>>
canvasVars == <<canvasEl, canvasWidth, canvasHeight, raster, clientWidth, devicePixelRatio>>
frameVars == <<sourceMode, frameRateHz, visibleSeconds>>
timerVars == <<reconnectTimer, timers, timerCount>>

\* The observation record of a task: kind, the message it delivered (NoMsg if none),
\* the number of set_config messages it sent, whether `connected` held when it began,
\* and whether it changed the viewport pair (center_hz, clamped bandwidth_hz).
Event(kind, msg, nsent, wasLive, changed) ==
    [kind |-> kind, msg |-> msg, nsent |-> nsent, wasLive |-> wasLive,
     changed |-> changed]

(* ------------ the double-precision arithmetic of line 104 -------------- *)
\* Math.floor((x / w) * dbfs.length) is computed in IEEE 754 doubles: x / w is rounded
\* to 53 significant bits (nearest, ties to even), its product with the length is
\* rounded again, and the result is floored.  The significands are never built: one
\* bit of a quotient is found from a remainder modulo 2 * w.

\* significant bits of a double
SignificandBits == 53

RECURSIVE pow2(_)
pow2(k) == IF k = 0 THEN 1 ELSE 2 * pow2(k - 1)

RECURSIVE pow2mod(_, _)
\* 2^m modulo q
pow2mod(m, q) ==
    IF m = 0
    THEN 1 % q
    ELSE LET h == pow2mod(m \div 2, q)
         IN  (IF m % 2 = 0 THEN h * h ELSE 2 * h * h) % q

RECURSIVE bitLength(_)
bitLength(v) == IF v = 0 THEN 0 ELSE 1 + bitLength(v \div 2)

RECURSIVE normShift(_, _)
\* the least k with x * 2^k >= w, for 0 < x
normShift(x, w) == IF x >= w THEN 0 ELSE 1 + normShift(2 * x, w)

\* floor(c / 2^j) for |c| < 2^30
shiftRight(c, j) == IF j >= 30 THEN (IF c < 0 THEN -1 ELSE 0) ELSE c \div pow2(j)

\* the bit of weight 1 of floor((A * 2^m + d) / w), for A >= 0 and m >= 0
quotientBit(A, m, d, w) ==
    LET g == ((A % (2 * w)) * pow2mod(m, 2 * w)) % (2 * w)
    IN  ((g + d) \div w) % 2

\* line 104: Math.floor((x / w) * n) for integers 0 <= x < w and n >= 0
floorScaled(x, w, n) ==
    IF x = 0 \/ n = 0
    THEN 0
    ELSE LET S == SignificandBits
             \* x / w = (a / w) * 2^-k with 1 <= a / w < 2
             k == normShift(x, w)
             a == x * pow2(k)
             \* rounding of a * 2^(S-1) / w to an integer M: x / w rounds to M * 2^-(S-1+k)
             guard == quotientBit(a, S, 0, w)
             lsb == quotientBit(a, S - 1, 0, w)
             sticky == ((a % w) * pow2mod(S, w)) % w # 0
             u == IF guard = 1 /\ (sticky \/ lsb = 1) THEN 1 ELSE 0
             rho == ((a % w) * pow2mod(S - 1, w)) % w
             \* the exact product P = M * n = (A * 2^(S-1) + c) / w
             A == n * a
             c == n * (u * w - rho)
             H == (A + shiftRight(c, S - 1)) \div w
             bitP(j) == IF j <= S - 1
                        THEN quotientBit(A, S - 1 - j, shiftRight(c, j), w)
                        ELSE (H \div pow2(j - (S - 1))) % 2
             \* rounding of P to S bits drops its d low bits
             d == bitLength(H) - 1
             up == /\ d > 0
                   /\ bitP(d - 1) = 1
                   /\ (bitP(d) = 1 \/ \E j \in 0..(d - 2) : bitP(j) = 1)
             \* the round-up reaches the integer part iff all kept fraction bits are 1
             carry == up /\ \A j \in d..(S - 2 + k) : bitP(j) = 1
         IN  H \div pow2(k) + (IF carry THEN 1 ELSE 0)

\* canvasEl.width and dbfs.length as they occur in the specifications below
RasterWidths == {cw * d : cw \in ClientWidths \cup WideWidths, d \in PixelRatios}
FrameLengths ==
    {Len(m.dbfs) : m \in Messages \cup RenderFrames \cup MetaFrames \cup PairFrames}

\* line 104 for those widths and lengths, computed once
binIdxTable ==
    [w \in RasterWidths |->
        [n \in FrameLengths |-> [x \in 0..(w - 1) |-> floorScaled(x, w, n)]]]

(* ------------------------- pure functions ----------------------------- *)

dbfsToLutIdxNoClamp(v) ==
    RoundDiv((v - MIN_DBFS) * 255, MAX_DBFS - MIN_DBFS)

dbfsToLutIdxWrap(v) ==
    RoundDiv(Max(0, v - MIN_DBFS) * 255, MAX_DBFS - MIN_DBFS) % 256

\* line 80, for integer v: round(clamp((v - MIN_DBFS) / (MAX_DBFS - MIN_DBFS), 0, 1) * 255)
dbfsToLutIdx(v) ==
    LET span == MAX_DBFS - MIN_DBFS
        c == Max(0, Min(span, v - MIN_DBFS))
    IN  RoundDiv(c * 255, span)

\* lines 106-108: INFERNO_LUT[k] (k counted from 0) as stored into the Uint8ClampedArray
\* rowData: a read past the end of the table is undefined, which is stored as 0
lutByte(k) == IF k >= 0 /\ k < Len(INFERNO_LUT) THEN INFERNO_LUT[k + 1] ELSE 0

\* the RGB color of a raster pixel: the fill of line 38, or lines 105-108 for a
\* table index
pixelColor(p) ==
    IF p = BgPixel
    THEN <<7, 17, 38>>
    ELSE <<lutByte(3 * p), lutByte(3 * p + 1), lutByte(3 * p + 2)>>

reconnectDelayNoCap(attempts) ==
    BackoffBaseMs + attempts * BackoffStepMs

reconnectDelaySawtooth(attempts) ==
    BackoffBaseMs + (attempts % 4) * BackoffStepMs

\* line 144
reconnectDelay(attempts) ==
    Min(BackoffCapMs, BackoffBaseMs + attempts * BackoffStepMs)

clampBandwidthNone(b) == b

clampBandwidthDouble(b) == IF b < BandwidthFloorHz THEN 2 * b ELSE b

\* line 89
clampBandwidth(b) == Max(BandwidthFloorHz, b)

\* lines 86-90: the object sendConfig serialises
ConfigMessage(c, b) ==
    [type |-> "set_config", center_hz |-> c, bandwidth_hz |-> clampBandwidth(b)]

sendConfigNoGuard(rs, out) ==
    Append(out, ConfigMessage(centerHz, bandwidthHz))

\* lines 83-92: sendConfig() with the readyState map rs and the send buffer out;
\* the value is the send buffer afterwards
sendConfig(rs, out) ==
    IF socket = 0 \/ rs[socket] # "OPEN"
    THEN out
    ELSE Append(out, ConfigMessage(centerHz, bandwidthHz))

reactiveSendConfigAlways(wasConnected, nowConnected, rs, out) ==
    IF phase = "mounted" /\ nowConnected THEN sendConfig(rs, out) ELSE out

\* lines 154-156, `$: if (connected) sendConfig()`, as run by the flush that follows a
\* task: only while the component is alive and only when `connected` was invalidated
\* (assigned a different value).
reactiveSendConfig(wasConnected, nowConnected, rs, out) ==
    IF phase = "mounted" /\ wasConnected # nowConnected /\ nowConnected
    THEN sendConfig(rs, out)
    ELSE out

reactiveVisibleSecondsExact(rate) ==
    IF phase = "mounted" THEN PlotHeight \div rate ELSE visibleSeconds

\* line 160, as run by the flush
reactiveVisibleSeconds(rate) ==
    IF phase = "mounted" THEN Max(1, RoundDiv(PlotHeight, rate)) ELSE visibleSeconds

\* line 129, negated: the message handler goes on to render
accepted(m) == m.parses /\ m.type = "spectrum" /\ m.dbfsIsArray

\* WebSocket.close(): a connecting or open socket starts closing, others are left alone
closeSocket(rs, s) ==
    IF s # 0 /\ rs[s] \in {"CONNECTING", "OPEN"} THEN [rs EXCEPT ![s] = "CLOSING"] ELSE rs

\* lines 103-111: the row drawRow paints for a frame, w pixels wide
paintedRow(dbfs, w) ==
    [x \in 1..w |->
        LET n == Len(dbfs)
            binIdx == binIdxTable[w][n][x - 1]
            i == Min(n - 1, binIdx)
        IN  dbfsToLutIdx(IF i >= 0 /\ i < n THEN dbfs[i + 1] ELSE MIN_DBFS)]

\* line 100: ctx.drawImage(canvasEl, 0, 0, w, h - 1, 0, 1, w, h - 1) under the context's
\* transform scale(dpr, dpr) that setCanvasSize left: the source rectangle is in bitmap
\* pixels, the destination rectangle is in user units.  Nearest-neighbour sampling.
scrolled(r, w, h, dpr) ==
    [y \in 1..Len(r) |->
        [x \in 1..w |->
            IF h - 1 >= 1 /\ (y - 1) >= dpr /\ (y - 1) < dpr + (h - 1) * dpr
            THEN r[((y - 1 - dpr) \div dpr) + 1][((x - 1) \div dpr) + 1]
            ELSE r[y][x]]]

drawRowNoGuard(dbfs) ==
    [scrolled(raster, canvasWidth, PlotHeight, devicePixelRatio)
        EXCEPT ![1] = paintedRow(dbfs, canvasWidth)]

\* lines 94-113: the raster after drawRow(dbfs)
drawRow(dbfs) ==
    IF ~canvasEl
    THEN raster
    ELSE [scrolled(raster, canvasWidth, PlotHeight, devicePixelRatio)
            EXCEPT ![1] = paintedRow(dbfs, canvasWidth)]

blankRaster(w, h) == [y \in 1..h |-> [x \in 1..w |-> BgPixel]]

(* ------------------------------ Init ---------------------------------- *)

Init ==
    /\ phase = "created"
    /\ centerHz \in CenterChoices
    /\ bandwidthHz \in BandwidthChoices
    /\ socket = 0
    /\ reconnectTimer = 0
    /\ reconnectAttempts = 0
    /\ connected = FALSE
    /\ sourceMode = "disconnected"
    /\ frameRateHz = DefaultFrameRateHz
    /\ leftHz = centerHz - bandwidthHz \div 2
    /\ rightHz = centerHz + bandwidthHz \div 2
    /\ visibleSeconds = Max(1, RoundDiv(PlotHeight, DefaultFrameRateHz))
    /\ canvasEl = TRUE
    /\ canvasWidth = 0
    /\ canvasHeight = 0
    /\ raster = <<>>
    /\ readyState = <<>>
    /\ outbox = <<>>
    /\ timers = {}
    /\ timerCount = 0
    /\ clientWidth \in ClientWidths
    /\ devicePixelRatio \in PixelRatios
    /\ ev = [kind |-> "init", msg |-> NoMsg, nsent |-> 0, wasLive |-> FALSE,
             changed |-> FALSE]

(* ----------------------------- actions -------------------------------- *)

setCanvasSizeKeep(w) ==
    IF canvasEl
    THEN /\ canvasWidth' = Max(1, w * devicePixelRatio)
         /\ canvasHeight' = Max(1, PlotHeight * devicePixelRatio)
         /\ raster' = [y \in 1..canvasHeight' |-> [x \in 1..canvasWidth' |->
                          IF y <= Len(raster) /\ x <= canvasWidth
                          THEN raster[y][x] ELSE BgPixel]]
    ELSE UNCHANGED <<canvasWidth, canvasHeight, raster>>

\* lines 24-40, with canvasEl.clientWidth = w
setCanvasSize(w) ==
    IF canvasEl
    THEN /\ canvasWidth' = Max(1, w * devicePixelRatio)
         /\ canvasHeight' = Max(1, PlotHeight * devicePixelRatio)
         /\ raster' = blankRaster(canvasWidth', canvasHeight')
    ELSE UNCHANGED <<canvasWidth, canvasHeight, raster>>

\* lines 115-152: connect(); limit caps the sockets the model creates
connect(limit) ==
    /\ Len(readyState) < limit
    /\ readyState' = Append(closeSocket(readyState, socket), "CONNECTING")
    /\ socket' = Len(readyState) + 1
    /\ outbox' = <<>>

onMountConnectOnly ==
    /\ phase = "created"
    /\ phase' = "mounted"
    /\ connect(MaxSockets)
    /\ ev' = Event("mount", NoMsg, 0, connected, FALSE)
    /\ UNCHANGED <<viewVars, frameVars, timerVars, reconnectAttempts, connected,
                   canvasVars>>

\* lines 162-167: the onMount callback
onMount ==
    /\ phase = "created"
    /\ phase' = "mounted"
    /\ setCanvasSize(clientWidth)
    /\ connect(MaxSockets)
    /\ ev' = Event("mount", NoMsg, 0, connected, FALSE)
    /\ UNCHANGED <<viewVars, frameVars, timerVars, reconnectAttempts, connected,
                   canvasEl, clientWidth, devicePixelRatio>>

\* lines 169-173: the cleanup onMount returned, and the component's destruction
\* (bind:this is reset to null, reactive statements no longer run)
onDestroy ==
    /\ phase = "mounted"
    /\ phase' = "destroyed"
    /\ timers' = IF reconnectTimer # 0 THEN {t \in timers : t.id # reconnectTimer} ELSE timers
    /\ readyState' = closeSocket(readyState, socket)
    /\ canvasEl' = FALSE
    /\ ev' = Event("destroy", NoMsg, 0, connected, FALSE)
    /\ UNCHANGED <<viewVars, frameVars, socket, reconnectTimer, timerCount,
                   reconnectAttempts, connected, canvasWidth, canvasHeight, raster,
                   outbox, clientWidth, devicePixelRatio>>

setViewportStaleEdges(c, b) ==
    /\ phase = "mounted"
    /\ centerHz' = c
    /\ bandwidthHz' = b
    /\ outbox' = reactiveSendConfig(connected, connected, readyState, outbox)
    /\ ev' = Event("set", NoMsg, Len(outbox') - Len(outbox), connected,
                   <<c, clampBandwidth(b)>> # <<centerHz, clampBandwidth(bandwidthHz)>>)
    /\ UNCHANGED <<phase, frameVars, timerVars, socket, reconnectAttempts, connected,
                   canvasVars, readyState, leftHz, rightHz>>

\* routes/+page.svelte line 261: the parent passes new centerHz / bandwidthHz props;
\* lines 158-159 recompute the edges, lines 154-156 run only if `connected` is dirty
setViewport(c, b) ==
    /\ phase = "mounted"
    /\ centerHz' = c
    /\ bandwidthHz' = b
    /\ leftHz' = c - b \div 2
    /\ rightHz' = c + b \div 2
    /\ outbox' = reactiveSendConfig(connected, connected, readyState, outbox)
    /\ ev' = Event("set", NoMsg, Len(outbox') - Len(outbox), connected,
                   <<c, clampBandwidth(b)>> # <<centerHz, clampBandwidth(bandwidthHz)>>)
    /\ UNCHANGED <<phase, frameVars, timerVars, socket, reconnectAttempts, connected,
                   canvasVars, readyState>>

\* line 166: the ResizeObserver callback, the element now w CSS pixels wide
onResize(w) ==
    /\ phase = "mounted"
    /\ clientWidth' = w
    /\ setCanvasSize(w)
    /\ ev' = Event("resize", NoMsg, 0, connected, FALSE)
    /\ UNCHANGED <<phase, viewVars, frameVars, timerVars, socket, reconnectAttempts,
                   connected, canvasEl, devicePixelRatio, readyState, outbox>>

onOpenNoReset(s) ==
    /\ s \in DOMAIN readyState
    /\ readyState[s] = "CONNECTING"
    /\ readyState' = [readyState EXCEPT ![s] = "OPEN"]
    /\ connected' = TRUE
    /\ outbox' = reactiveSendConfig(connected, TRUE, readyState',
                                    sendConfig(readyState', outbox))
    /\ ev' = Event("open", NoMsg, Len(outbox') - Len(outbox), connected, FALSE)
    /\ UNCHANGED <<phase, viewVars, frameVars, timerVars, socket, canvasVars,
                   reconnectAttempts>>

\* lines 120-124: the open listener of socket s, then the flush
onOpen(s) ==
    /\ s \in DOMAIN readyState
    /\ readyState[s] = "CONNECTING"
    /\ readyState' = [readyState EXCEPT ![s] = "OPEN"]
    /\ connected' = TRUE
    /\ reconnectAttempts' = 0
    /\ outbox' = reactiveSendConfig(connected, TRUE, readyState',
                                    sendConfig(readyState', outbox))
    /\ ev' = Event("open", NoMsg, Len(outbox') - Len(outbox), connected, FALSE)
    /\ UNCHANGED <<phase, viewVars, frameVars, timerVars, socket, canvasVars>>

\* lines 126-137: the message listener of socket s given message m, then the flush
onMessage(s, m) ==
    /\ s \in DOMAIN readyState
    /\ readyState[s] = "OPEN"
    /\ IF accepted(m)
       THEN /\ frameRateHz' = IF m.hasRate THEN m.frame_rate_hz ELSE frameRateHz
            /\ sourceMode' = IF m.hasSource THEN m.source ELSE sourceMode
            /\ raster' = drawRow(m.dbfs)
            /\ visibleSeconds' = reactiveVisibleSeconds(frameRateHz')
       ELSE UNCHANGED <<frameRateHz, sourceMode, raster, visibleSeconds>>
    /\ outbox' = reactiveSendConfig(connected, connected, readyState, outbox)
    /\ ev' = Event("message", m, Len(outbox') - Len(outbox), connected, FALSE)
    /\ UNCHANGED <<phase, viewVars, timerVars, socket, reconnectAttempts, connected,
                   canvasEl, canvasWidth, canvasHeight, clientWidth, devicePixelRatio,
                   readyState>>

closeListenerNoTimer(s, kind) ==
    /\ readyState' = [readyState EXCEPT ![s] = "CLOSED"]
    /\ connected' = FALSE
    /\ sourceMode' = "reconnecting"
    /\ reconnectAttempts' = reconnectAttempts + 1
    /\ timerCount' = timerCount + 1
    /\ reconnectTimer' = timerCount'
    /\ timers' = timers
    /\ outbox' = reactiveSendConfig(connected, FALSE, readyState', outbox)
    /\ ev' = Event(kind, NoMsg, Len(outbox') - Len(outbox), connected, FALSE)
    /\ UNCHANGED <<phase, viewVars, frameRateHz, visibleSeconds, socket, canvasVars>>

closeListenerNoIncrement(s, kind) ==
    /\ readyState' = [readyState EXCEPT ![s] = "CLOSED"]
    /\ connected' = FALSE
    /\ sourceMode' = "reconnecting"
    /\ timerCount' = timerCount + 1
    /\ reconnectTimer' = timerCount'
    /\ timers' = timers \cup {[id |-> timerCount', delay |-> reconnectDelay(reconnectAttempts)]}
    /\ outbox' = reactiveSendConfig(connected, FALSE, readyState', outbox)
    /\ ev' = Event(kind, NoMsg, Len(outbox') - Len(outbox), connected, FALSE)
    /\ UNCHANGED <<phase, viewVars, frameRateHz, visibleSeconds, socket, canvasVars,
                   reconnectAttempts>>

closeListenerDouble(s, kind) ==
    /\ readyState' = [readyState EXCEPT ![s] = "CLOSED"]
    /\ connected' = FALSE
    /\ sourceMode' = "reconnecting"
    /\ reconnectAttempts' = reconnectAttempts + (IF kind = "error" THEN 2 ELSE 1)
    /\ timerCount' = timerCount + 1
    /\ reconnectTimer' = timerCount'
    /\ timers' = timers \cup {[id |-> timerCount', delay |-> reconnectDelay(reconnectAttempts')]}
    /\ outbox' = reactiveSendConfig(connected, FALSE, readyState', outbox)
    /\ ev' = Event(kind, NoMsg, Len(outbox') - Len(outbox), connected, FALSE)
    /\ UNCHANGED <<phase, viewVars, frameRateHz, visibleSeconds, socket, canvasVars>>

\* lines 139-146: the close listener of socket s, then the flush (`connected` is
\* false afterwards, so lines 154-156 send nothing)
closeListener(s, kind) ==
    /\ readyState' = [readyState EXCEPT ![s] = "CLOSED"]
    /\ connected' = FALSE
    /\ sourceMode' = "reconnecting"
    /\ reconnectAttempts' = reconnectAttempts + 1
    /\ timerCount' = timerCount + 1
    /\ reconnectTimer' = timerCount'
    /\ timers' = timers \cup {[id |-> timerCount', delay |-> reconnectDelay(reconnectAttempts')]}
    /\ outbox' = reactiveSendConfig(connected, FALSE, readyState', outbox)
    /\ ev' = Event(kind, NoMsg, Len(outbox') - Len(outbox), connected, FALSE)
    /\ UNCHANGED <<phase, viewVars, frameRateHz, visibleSeconds, socket, canvasVars>>

\* the connection of socket s is closed cleanly: the close event alone
onClose(s) ==
    /\ s \in DOMAIN readyState
    /\ readyState[s] \in {"OPEN", "CLOSING"}
    /\ closeListener(s, "close")

\* lines 148-151 then 139-146: the connection of socket s fails; the browser fires
\* error and then close in one task.  What the error listener assigns (connected,
\* sourceMode = 'error') the close listener overwrites before any other task runs.
onError(s) ==
    /\ s \in DOMAIN readyState
    /\ readyState[s] \in {"CONNECTING", "OPEN", "CLOSING"}
    /\ closeListener(s, "error")

onTimerRepeating(limit) ==
    \E t \in timers :
        /\ timers' = timers
        /\ connect(limit)
        /\ ev' = Event("timer", NoMsg, 0, connected, FALSE)
        /\ UNCHANGED <<phase, viewVars, frameVars, reconnectTimer, timerCount,
                       reconnectAttempts, connected, canvasVars>>

\* line 145: a pending timeout fires and calls connect()
onTimer(limit) ==
    \E t \in timers :
        /\ timers' = timers \ {t}
        /\ connect(limit)
        /\ ev' = Event("timer", NoMsg, 0, connected, FALSE)
        /\ UNCHANGED <<phase, viewVars, frameVars, reconnectTimer, timerCount,
                       reconnectAttempts, connected, canvasVars>>

\* lines 83-92: sendConfig() called directly, in whatever state the component is in
callSendConfig ==
    /\ Len(outbox) < MaxOutbox
    /\ outbox' = sendConfig(readyState, outbox)
    /\ ev' = Event("sendConfig", NoMsg, Len(outbox') - Len(outbox), connected, FALSE)
    /\ UNCHANGED <<phase, viewVars, frameVars, timerVars, socket, reconnectAttempts,
                   connected, canvasVars, readyState>>

(* -------------------------- specifications ---------------------------- *)

Next ==
    \/ onMount
    \/ onDestroy
    \/ \E c \in CenterChoices, b \in BandwidthChoices : setViewport(c, b)
    \/ \E w \in ClientWidths : onResize(w)
    \/ \E s \in DOMAIN readyState : onOpen(s)
    \/ \E s \in DOMAIN readyState, m \in Messages : onMessage(s, m)
    \/ \E s \in DOMAIN readyState : onClose(s)
    \/ \E s \in DOMAIN readyState : onError(s)
    \/ onTimer(MaxSockets)

\* the whole component
Spec == Init /\ [][Next]_vars

\* the connection alone: no retune, no inbound message, no resize
NextConn ==
    \/ onMount
    \/ onDestroy
    \/ \E s \in DOMAIN readyState : onOpen(s)
    \/ \E s \in DOMAIN readyState : onClose(s)
    \/ \E s \in DOMAIN readyState : onError(s)
    \/ onTimer(MaxRetrySockets)

SpecConn == Init /\ [][NextConn]_vars

\* the connection alone, with the browser's timer guarantee: a timeout that stays
\* pending (line 145, never cleared) fires
SpecRetry == Init /\ [][NextConn]_vars /\ WF_vars(onTimer(MaxRetrySockets))

\* the connection and the viewport, with sendConfig also called directly at any moment
NextSend ==
    \/ onMount
    \/ onDestroy
    \/ \E c \in CenterChoices, b \in BandwidthChoices : setViewport(c, b)
    \/ \E s \in DOMAIN readyState : onOpen(s)
    \/ \E s \in DOMAIN readyState : onClose(s)
    \/ \E s \in DOMAIN readyState : onError(s)
    \/ onTimer(MaxSockets)
    \/ callSendConfig

SpecSend == Init /\ [][NextSend]_vars

\* the renderer alone: one connection that stays open, frames and resizes
NextRender ==
    \/ onMount
    \/ \E w \in ClientWidths \cup WideWidths : onResize(w)
    \/ \E s \in DOMAIN readyState : onOpen(s)
    \/ \E s \in DOMAIN readyState, m \in RenderFrames : onMessage(s, m)

SpecRender == Init /\ [][NextRender]_vars

\* the colormap alone: one connection that stays open, resizes, and on a blank raster
\* a frame of two samples
NextLut ==
    \/ onMount
    \/ \E w \in ClientWidths : onResize(w)
    \/ \E s \in DOMAIN readyState : onOpen(s)
    \/ \E s \in DOMAIN readyState, m \in PairFrames :
          /\ raster = blankRaster(canvasWidth, canvasHeight)
          /\ onMessage(s, m)

SpecLut == Init /\ [][NextLut]_vars

\* the viewport and the metadata of frames: retunes over more bandwidths, frames that
\* report frame rates and a source label, and the connection events
NextView ==
    \/ onMount
    \/ \E c \in CenterChoices, b \in BandwidthChoices \cup LowBandwidths : setViewport(c, b)
    \/ \E s \in DOMAIN readyState : onOpen(s)
    \/ \E s \in DOMAIN readyState, m \in MetaFrames : onMessage(s, m)
    \/ \E s \in DOMAIN readyState : onClose(s)
    \/ onTimer(MaxSockets)

SpecView == Init /\ [][NextView]_vars

(* ------------------------- state predicates --------------------------- *)

SocketOpen == socket # 0 /\ readyState[socket] = "OPEN"

TimerPending == \E t \in timers : t.id = reconnectTimer

LastSent == outbox[Len(outbox)]

\* the component is mounted and the socket it references has closed
ConnectionLost == phase = "mounted" /\ socket # 0 /\ readyState[socket] = "CLOSED"

\* a raster row that is still the background fill of setCanvasSize
IsBackgroundRow(row) == \A x \in DOMAIN row : row[x] = BgPixel


\* the canvas has the buffer setCanvasSize gives it: at least one pixel wide, plotHeight
\* rows times the pixel ratio, every row as wide as the buffer
RasterInitialized ==
    /\ canvasWidth >= 1
    /\ canvasHeight = Max(1, PlotHeight * devicePixelRatio)
    /\ Len(raster) = canvasHeight
    /\ \A y \in DOMAIN raster : Len(raster[y]) = canvasWidth


\* the sockets that are connecting or open
LiveSockets == {s \in DOMAIN readyState : readyState[s] \in {"CONNECTING", "OPEN"}}

(* ------------------------------ claims -------------------------------- *)

\* C1: every set_config message put on the wire carries bandwidth_hz = max(2,000,000,
\* requested bandwidthHz): never below 2,000,000, and a request at or above the floor
\* is transmitted unchanged.
C1_TransmittedBandwidthClamped ==
    [][\A i \in DOMAIN outbox' :
          (i > Len(outbox) \/ outbox'[i] # outbox[i]) =>
              /\ outbox'[i].type = "set_config"
              /\ outbox'[i].bandwidth_hz >= 2000000
              /\ outbox'[i].bandwidth_hz =
                    (IF bandwidthHz' < 2000000 THEN 2000000 ELSE bandwidthHz')]_vars

\* C1 witness: an open with a requested bandwidth of 1,000,000 has sent 2,000,000
C1_Witness ==
    /\ ev.kind = "open"
    /\ bandwidthHz = 1000000
    /\ outbox # <<>>
    /\ LastSent.bandwidth_hz = 2000000

\* C2: while Live, a viewport change reaches the producer: after the operator has set
\* centerHz / bandwidthHz on an open connection, the set_config message sent last
\* carries the desired (center_hz, clamped bandwidth_hz) pair.
C2_RetuneWhileLiveIsSent ==
    (ev.kind = "set" /\ ev.wasLive /\ SocketOpen) =>
        /\ outbox # <<>>
        /\ LastSent.center_hz = centerHz
        /\ LastSent.bandwidth_hz = (IF bandwidthHz < 2000000 THEN 2000000 ELSE bandwidthHz)

\* C3: each transition into Live (socket open event) causes exactly one outbound
\* set_config message, carrying the viewport pair current at that moment.
C3_OneConfigPerOpen ==
    ev.kind = "open" =>
        /\ ev.nsent = 1
        /\ outbox # <<>>
        /\ LastSent.center_hz = centerHz
        /\ LastSent.bandwidth_hz = (IF bandwidthHz < 2000000 THEN 2000000 ELSE bandwidthHz)

\* C4: setting the same pair twice in a row while Live (the first time a change)
\* produces exactly one set_config message between the two operations.
C4_SamePairTwiceSendsOnce ==
    [][(/\ ev.kind = "set" /\ ev.wasLive /\ ev.changed
        /\ ev'.kind = "set" /\ ev'.wasLive /\ ~ev'.changed
        /\ SocketOpen) => ev.nsent + ev'.nsent = 1]_vars

\* C5: sendConfig called while the connection is not Live (no socket, or socket not
\* OPEN) emits no message and leaves the connection state, the attempt counter and
\* the reconnect timer unchanged.
C5_SendConfigNoopUnlessLive ==
    [][(ev'.kind = "sendConfig" /\ ~SocketOpen) =>
          /\ outbox' = outbox
          /\ UNCHANGED <<socket, readyState, connected, sourceMode, reconnectAttempts,
                         reconnectTimer, timers>>]_vars

\* C5 witness: sendConfig was called on a socket that is still connecting, and the
\* send buffer is empty
C5_Witness ==
    /\ ev.kind = "sendConfig"
    /\ socket # 0
    /\ readyState[socket] = "CONNECTING"
    /\ ev.nsent = 0
    /\ outbox = <<>>

\* C6: an inbound message is rendered iff it is a spectrum message with an array dbfs;
\* any other message leaves the raster, the connection state, the attempt counter, the
\* frame rate and the source label unchanged, and a rendered frame moves the previous
\* top row to the row below it (so two frames with a dropped message between them
\* end on adjacent rows, in arrival order).
C6_OnlySpectrumFramesRendered ==
    [][(ev'.kind = "message" /\ phase = "mounted") =>
          IF ev'.msg.parses /\ ev'.msg.type = "spectrum" /\ ev'.msg.dbfsIsArray
          THEN /\ raster'[1] = paintedRow(ev'.msg.dbfs, canvasWidth)
               /\ raster'[2] = raster[1]
               /\ UNCHANGED <<connected, readyState, reconnectAttempts>>
          ELSE UNCHANGED <<raster, connected, readyState, reconnectAttempts,
                           frameRateHz, sourceMode>>]_vars

\* C7: the reconnect delay scheduled by the n-th consecutive failure is
\* min(5000, 500 + 400 n): 900, 1300, 1700, 2100, 2500 for n = 1..5, 5000 for n >= 12.
C7_BackoffDelay ==
    \A t \in timers :
        LET n == reconnectAttempts IN
        /\ t.delay = (IF 500 + 400 * n < 5000 THEN 500 + 400 * n ELSE 5000)
        /\ n \in 1..5 => t.delay = <<900, 1300, 1700, 2100, 2500>>[n]
        /\ n >= 12 => t.delay = 5000

\* C7 witness: the twelfth consecutive failure has scheduled a reconnect after 5000 ms
C7_Witness ==
    /\ reconnectAttempts = 12
    /\ \E t \in timers : t.id = reconnectTimer /\ t.delay = 5000

\* C8: a successful open resets the attempt counter: the disconnection that follows
\* an open is attempt 1 and schedules its reconnect after 900 ms.
C8_OpenResetsAttempts ==
    /\ ev.kind = "open" => reconnectAttempts = 0
    /\ (ev.kind \in {"close", "error"} /\ ev.wasLive) =>
          /\ reconnectAttempts = 1
          /\ \E t \in timers : t.id = reconnectTimer /\ t.delay = 900

\* C8 witness: two failed attempts, then an open, then a close that scheduled 900 ms
C8_Witness ==
    /\ ev.kind = "close"
    /\ ev.wasLive
    /\ timerCount = 3
    /\ \E t \in timers : t.id = reconnectTimer /\ t.delay = 900

C10_NothingLeftAfterTeardown ==
    (phase = "destroyed" /\ \A s \in DOMAIN readyState : readyState[s] # "CLOSING") =>
        /\ timers = {}
        /\ \A s \in DOMAIN readyState : readyState[s] \notin {"CONNECTING", "OPEN"}

\* C11: a reconnect timer that fires after teardown is a no-op: it creates no new
\* socket.
C11_TimerAfterTeardownIsNoop ==
    [][(phase = "destroyed" /\ ev'.kind = "timer") =>
          /\ Len(readyState') = Len(readyState)
          /\ socket' = socket]_vars

\* C12: while the component is mounted, every connection loss (connect failure, close,
\* error followed by close) leaves a reconnect timer pending, and, the timer firing
\* eventually, is followed by a new connection attempt without any operator action
\* (unless the component is torn down first).  The attempt is looked for below the
\* model's cap on sockets.
C12_LossIsFollowedByAttempt ==
    /\ [](ConnectionLost => TimerPending)
    /\ (ConnectionLost /\ Len(readyState) < MaxRetrySockets)
          ~> (phase = "destroyed" \/ (socket # 0 /\ readyState[socket] = "CONNECTING"))

\* C12 witness: the second loss in a row has been followed by the timer's new attempt
C12_Witness ==
    /\ phase = "mounted"
    /\ ev.kind = "timer"
    /\ reconnectAttempts = 2
    /\ readyState[socket] = "CONNECTING"
    /\ readyState[socket - 1] = "CLOSED"

\* C13: after initialization and k accepted frames with no resize in between, the
\* frames are stacked from the top, most recent first, above rows still at the
\* background: the top row shows the frame received last, every painted row shows
\* one of the frames received, at the raster's width, and no background row lies
\* above a painted row.
C13_FramesStackedFromTop ==
    phase = "mounted" =>
        /\ (ev.kind = "message" /\ ev.msg.parses /\ ev.msg.type = "spectrum"
                /\ ev.msg.dbfsIsArray) =>
              raster[1] = paintedRow(ev.msg.dbfs, canvasWidth)
        /\ \A i \in DOMAIN raster :
              IF IsBackgroundRow(raster[i])
              THEN \A j \in i..Len(raster) : IsBackgroundRow(raster[j])
              ELSE \E m \in RenderFrames : raster[i] = paintedRow(m.dbfs, canvasWidth)

\* C14: a resize resets every raster row to the background color and changes nothing
\* else: socket, connection state, attempt counter, reconnect timer and what was sent
\* are untouched; the valid frame that arrives next is painted into the top row on the
\* same socket.
C14_ResizeResetsRasterOnly ==
    [][/\ ev'.kind = "resize" =>
            /\ Len(raster') = canvasHeight'
            /\ \A y \in DOMAIN raster' :
                  /\ Len(raster'[y]) = canvasWidth'
                  /\ \A x \in DOMAIN raster'[y] : pixelColor(raster'[y][x]) = <<7, 17, 38>>
            /\ UNCHANGED <<socket, readyState, connected, sourceMode, frameRateHz,
                           reconnectAttempts, reconnectTimer, timers, outbox>>
       /\ (/\ ev.kind = "resize"
           /\ ev'.kind = "message"
           /\ ev'.msg.parses /\ ev'.msg.type = "spectrum" /\ ev'.msg.dbfsIsArray) =>
            /\ raster'[1] = paintedRow(ev'.msg.dbfs, canvasWidth)
            /\ \A y \in DOMAIN raster' : y > 1 => IsBackgroundRow(raster'[y])
            /\ UNCHANGED <<socket, readyState, connected, reconnectAttempts>>]_vars

\* C14 witness: a resize while streaming (frames with source "sdr" were received, the
\* socket is open) has left a raster of background rows
C14_Witness ==
    /\ ev.kind = "resize"
    /\ SocketOpen
    /\ connected
    /\ sourceMode = "sdr"
    /\ raster # <<>>
    /\ \A y \in DOMAIN raster : IsBackgroundRow(raster[y])

\* C15: the colormap clamps at both ends of the dynamic range: a pixel painted from a
\* sample v <= -120 has the color painted for -120, and a pixel painted from a sample
\* v >= -20 has the color painted for -20.
C15_ColormapClamps ==
    (/\ phase = "mounted"
     /\ ev.kind = "message"
     /\ ev.msg.parses /\ ev.msg.type = "spectrum" /\ ev.msg.dbfsIsArray
     /\ ev.msg.dbfs # <<>>) =>
        \A x \in 1..canvasWidth :
            LET n == Len(ev.msg.dbfs)
                i == binIdxTable[canvasWidth][n][x - 1]
                v == ev.msg.dbfs[(IF i < n - 1 THEN i ELSE n - 1) + 1]
            IN  /\ v <= -120 =>
                      pixelColor(raster[1][x]) = pixelColor(dbfsToLutIdx(-120))
                /\ v >= -20 =>
                      pixelColor(raster[1][x]) = pixelColor(dbfsToLutIdx(-20))

\* C15 witness: the frame [-121, -120, -20, -19] painted on a raster four pixels wide:
\* the two low samples share one table index, the two high samples another
C15_Witness ==
    /\ phase = "mounted"
    /\ ev.kind = "message"
    /\ ev.msg.dbfs = <<-121, -120, -20, -19>>
    /\ canvasWidth = 4
    /\ raster[1][1] = raster[1][2]
    /\ raster[1][3] = raster[1][4]
    /\ raster[1][2] # raster[1][3]

\* C16: for a raster w >= 1 pixels wide and a frame of n >= 1 samples, the sample
\* painted at pixel x in [0, w) is the one at index min(n-1, floor(x*n/w)), which lies
\* in [0, n-1]; for w = 100 and n = 50, x = 0 shows sample 0 and x = 99 shows sample 49.
C16_SampleIndexByPixel ==
    (/\ phase = "mounted"
     /\ ev.kind = "message"
     /\ ev.msg.parses /\ ev.msg.type = "spectrum" /\ ev.msg.dbfsIsArray
     /\ ev.msg.dbfs # <<>>) =>
        LET w == canvasWidth
            n == Len(ev.msg.dbfs)
            index(x) == IF (x * n) \div w < n - 1 THEN (x * n) \div w ELSE n - 1
        IN  /\ \A x \in 0..(w - 1) :
                  /\ index(x) \in 0..(n - 1)
                  /\ raster[1][x + 1] = dbfsToLutIdx(ev.msg.dbfs[index(x) + 1])
            /\ (w = 100 /\ n = 50) =>
                  /\ raster[1][1] = dbfsToLutIdx(ev.msg.dbfs[1])
                  /\ raster[1][100] = dbfsToLutIdx(ev.msg.dbfs[50])

\* C17: every valid spectrum message is rendered once, in the task that delivers it and
\* in arrival order: after it the top row shows its frame, and of two valid messages
\* in a row the earlier one has been scrolled by exactly one row, to the row below.
C17_OneRenderPerFrameInOrder ==
    [][(/\ phase = "mounted"
        /\ ev'.kind = "message"
        /\ ev'.msg.parses /\ ev'.msg.type = "spectrum" /\ ev'.msg.dbfsIsArray) =>
          /\ raster'[1] = paintedRow(ev'.msg.dbfs, canvasWidth)
          /\ (/\ ev.kind = "message"
              /\ ev.msg.parses /\ ev.msg.type = "spectrum" /\ ev.msg.dbfsIsArray) =>
                raster'[2] = paintedRow(ev.msg.dbfs, canvasWidth)]_vars

\* C18: at every device pixel ratio, one accepted frame moves each row r of the pixel
\* buffer (plotHeight * ratio rows) to row r + 1, the last row being discarded, and
\* paints the new top row across the full buffer width.
C18_ScrollOnScaledBuffer ==
    [][(/\ phase = "mounted"
        /\ ev'.kind = "message"
        /\ ev'.msg.parses /\ ev'.msg.type = "spectrum" /\ ev'.msg.dbfsIsArray) =>
          /\ Len(raster') = PlotHeight * devicePixelRatio
          /\ \A r \in 1..(Len(raster) - 1) : raster'[r + 1] = raster[r]
          /\ Len(raster'[1]) = clientWidth * devicePixelRatio
          /\ \A x \in DOMAIN raster'[1] : raster'[1][x] # BgPixel]_vars

\* C19: every table index that dbfsToLutIdx produces for a painted sample addresses
\* three defined bytes of INFERNO_LUT: index * 3 + 2 is less than the table's byte
\* length, so no sample value reads past the end of the table.
C19_LutIndexInsideTable ==
    (/\ phase = "mounted"
     /\ ev.kind = "message"
     /\ ev.msg.parses /\ ev.msg.type = "spectrum" /\ ev.msg.dbfsIsArray) =>
        \A x \in DOMAIN raster[1] :
            /\ raster[1][x] >= 0
            /\ raster[1][x] * 3 + 2 < Len(INFERNO_LUT)

\* C20: a valid spectrum frame with zero samples (dbfs = []) paints nothing: after it
\* the top raster row holds the background color, not a colormap color.
C20_EmptyFramePaintsNothing ==
    (/\ phase = "mounted"
     /\ ev.kind = "message"
     /\ ev.msg.parses /\ ev.msg.type = "spectrum" /\ ev.msg.dbfsIsArray
     /\ ev.msg.dbfs = <<>>) =>
        \A x \in DOMAIN raster[1] : pixelColor(raster[1][x]) = <<7, 17, 38>>

\* C21: receiving an inbound message, valid or not, never causes an outbound message:
\* the send buffer is the same after the message listener as before it, also when the
\* frame changes the reported frame rate or the source label.
C21_FramesSendNothing ==
    [][ev'.kind = "message" =>
          /\ outbox' = outbox
          /\ ev'.nsent = 0]_vars

\* C21 witness: on a Live connection that has sent its configuration, a frame has
\* changed the frame rate and the source label and nothing was sent
C21_Witness ==
    /\ ev.kind = "message"
    /\ ev.msg.hasRate
    /\ ev.msg.hasSource
    /\ ev.wasLive
    /\ SocketOpen
    /\ frameRateHz = 10
    /\ sourceMode = "sdr"
    /\ outbox # <<>>
    /\ ev.nsent = 0


\* C22: clamping a bandwidth twice gives what clamping it once gives, and while the
\* connection is live a change of the requested bandwidth from one value below the
\* 2 MHz floor to another one below it, the center kept, leaves the clamped pair
\* unchanged and sends no set_config message.
C22_ClampIdempotentNoResend ==
    /\ [](clampBandwidth(clampBandwidth(bandwidthHz)) = clampBandwidth(bandwidthHz))
    /\ [][(/\ ev'.kind = "set"
           /\ ev'.wasLive
           /\ SocketOpen
           /\ centerHz' = centerHz
           /\ bandwidthHz < BandwidthFloorHz
           /\ bandwidthHz' < BandwidthFloorHz
           /\ bandwidthHz' # bandwidthHz)
          => /\ clampBandwidth(bandwidthHz') = clampBandwidth(bandwidthHz)
             /\ ~ev'.changed
             /\ ev'.nsent = 0
             /\ outbox' = outbox]_vars

C22_Witness ==
    /\ ev.kind = "set"
    /\ ev.wasLive
    /\ SocketOpen
    /\ bandwidthHz \in LowBandwidths
    /\ ~ev.changed
    /\ ev.nsent = 0
    /\ outbox # <<>>
    /\ LastSent.bandwidth_hz = BandwidthFloorHz


\* C23: on activation the raster is sized and filled with the background before the
\* connection is opened: the step that creates the first socket leaves a raster of
\* background pixels, a socket exists only with an initialized raster, and every open,
\* message, close or error event, the first frame included, is handled with the raster
\* initialized before it.
C23_RasterBeforeConnect ==
    /\ [](readyState # <<>> => RasterInitialized)
    /\ [][/\ (readyState = <<>> /\ readyState' # <<>>) =>
                /\ ev'.kind = "mount"
                /\ canvasWidth' = Max(1, clientWidth * devicePixelRatio)
                /\ raster' = blankRaster(canvasWidth', canvasHeight')
          /\ ev'.kind \in {"open", "message", "close", "error"} =>
                RasterInitialized]_vars

C23_Witness ==
    /\ phase = "mounted"
    /\ ev.kind = "message"
    /\ accepted(ev.msg)
    /\ ev.msg.dbfs = <<-120, -20>>
    /\ RasterInitialized
    /\ raster[1] = paintedRow(ev.msg.dbfs, canvasWidth)
    /\ ~IsBackgroundRow(raster[1])
    /\ \A y \in 2..Len(raster) : IsBackgroundRow(raster[y])


\* C24: a valid frame that arrives while the drawing surface is unavailable is not
\* painted and harms nothing: the raster is unchanged, the message listener completes
\* (the frame's metadata is taken), the socket stays open and the connection live,
\* and no reconnect is scheduled; a valid frame that arrives while the surface is
\* available is painted into the top row.
C24_NoSurfaceNoPaint ==
    [][(ev'.kind = "message" /\ accepted(ev'.msg)) =>
          /\ ~canvasEl =>
                /\ raster' = raster
                /\ frameRateHz' = IF ev'.msg.hasRate THEN ev'.msg.frame_rate_hz
                                  ELSE frameRateHz
                /\ sourceMode' = IF ev'.msg.hasSource THEN ev'.msg.source ELSE sourceMode
                /\ UNCHANGED <<connected, readyState, socket, reconnectAttempts,
                               reconnectTimer, timers, canvasEl>>
          /\ canvasEl => raster'[1] = paintedRow(ev'.msg.dbfs, canvasWidth)]_vars

C24_Witness ==
    /\ ~canvasEl
    /\ ev.kind = "message"
    /\ accepted(ev.msg)
    /\ ev.msg.hasSource
    /\ sourceMode = "sdr"
    /\ connected
    /\ SocketOpen
    /\ IsBackgroundRow(raster[1])


\* C25: every scheduled reconnect delay lies between 900 ms and 5000 ms, and between
\* two opens the delays never decrease: a failure that follows n >= 1 consecutive
\* failures schedules at least the delay the n-th failure scheduled,
\* min(5000, 500 + 400 n).
C25_DelaysBoundedNonDecreasing ==
    /\ [](\A t \in timers : t.delay >= 900 /\ t.delay <= 5000)
    /\ [][(ev'.kind \in {"close", "error"} /\ reconnectAttempts >= 1) =>
             \A t \in timers' \ timers :
                 /\ t.delay >= Min(5000, 500 + 400 * reconnectAttempts)
                 /\ t.delay <= 5000]_vars

C25_Witness ==
    /\ ev.kind = "error"
    /\ ~ev.wasLive
    /\ reconnectAttempts = MaxRetrySockets
    /\ \E t \in timers : t.id = reconnectTimer /\ t.delay = BackoffCapMs


\* C26: the edges are derived from the viewport: leftHz = centerHz - bandwidthHz / 2
\* and rightHz = centerHz + bandwidthHz / 2, so the edges are bandwidthHz apart around
\* the center; only a change of the viewport changes them, no inbound frame and no
\* connection event does.
C26_EdgesFollowViewport ==
    /\ [](/\ leftHz = centerHz - bandwidthHz \div 2
          /\ rightHz = centerHz + bandwidthHz \div 2
          /\ rightHz - leftHz = bandwidthHz
          /\ leftHz + rightHz = 2 * centerHz)
    /\ [][<<leftHz, rightHz>>' # <<leftHz, rightHz>> =>
             /\ ev'.kind = "set"
             /\ <<centerHz, bandwidthHz>>' # <<centerHz, bandwidthHz>>]_vars

C26_Witness ==
    /\ ev.kind = "set"
    /\ ev.wasLive
    /\ centerHz = 156650000
    /\ bandwidthHz = 500000
    /\ leftHz = 156400000
    /\ rightHz = 156900000
    /\ frameRateHz = 3


C28_OneSocketOneTimer ==
    phase = "mounted" =>
        /\ Cardinality(LiveSockets) <= 1
        /\ Cardinality(timers) <= 1
        /\ ~(timers # {} /\ LiveSockets # {})
        /\ LiveSockets \subseteq {socket}

C28_Witness ==
    /\ phase = "mounted"
    /\ ev.kind = "timer"
    /\ timers = {}
    /\ Len(readyState) = MaxSockets
    /\ LiveSockets = {MaxSockets}
    /\ \A s \in 1..(MaxSockets - 1) : readyState[s] = "CLOSED"


\* C29: every socket is closed once, and its closing counts once: a close event, and
\* an error event with the close event that follows it, adds 1 to the attempt counter
\* and schedules one reconnect; a closed socket stays closed, and the connect() a
\* timer calls while the socket it references is closed changes no socket's state,
\* counts nothing and schedules nothing.  So the reconnects scheduled so far are as
\* many as the sockets closed so far.
C29_OneCountPerSocket ==
    /\ [](timerCount = Cardinality({s \in DOMAIN readyState : readyState[s] = "CLOSED"}))
    /\ [][/\ ev'.kind \in {"close", "error"} =>
                /\ reconnectAttempts' = reconnectAttempts + 1
                /\ timerCount' = timerCount + 1
                /\ Cardinality(timers' \ timers) = 1
                /\ timers \subseteq timers'
                /\ Cardinality({s \in DOMAIN readyState :
                                   readyState[s] # "CLOSED" /\ readyState'[s] = "CLOSED"}) = 1
          /\ \A s \in DOMAIN readyState :
                readyState[s] = "CLOSED" => readyState'[s] = "CLOSED"
          /\ (ev'.kind = "timer" /\ socket # 0 /\ readyState[socket] = "CLOSED") =>
                /\ \A s \in DOMAIN readyState : readyState'[s] = readyState[s]
                /\ reconnectAttempts' = reconnectAttempts
                /\ timerCount' = timerCount
                /\ timers' \subseteq timers]_vars

C29_Witness ==
    /\ ev.kind = "error"
    /\ reconnectAttempts = 3
    /\ timerCount = 3
    /\ Cardinality(timers) = 1
    /\ Len(readyState) = 3
    /\ \A s \in DOMAIN readyState : readyState[s] = "CLOSED"


\* C30: whenever the connected flag is true, the status label sourceMode is none of
\* 'reconnecting', 'error' and 'disconnected'.
C30_LiveLabelConsistent ==
    connected => sourceMode \notin {"reconnecting", "error", "disconnected"}


\* C31: after deactivation the component has no outward effect: no step taken once
\* the component is destroyed sends a set_config message, creates a socket or changes
\* the raster.
C31_NoEffectAfterTeardown ==
    [][phase = "destroyed" =>
          /\ ev'.nsent = 0
          /\ Len(readyState') = Len(readyState)
          /\ raster' = raster]_vars


\* C32: the frequency span shown equals the bandwidth transmitted: a set_config
\* message just sent carries the bandwidth_hz rightHz - leftHz, the span between the
\* displayed edges of the viewport it was built from.
C32_ShownSpanIsSentBandwidth ==
    (ev.kind = "open" /\ ev.nsent > 0 /\ outbox # <<>>) =>
        /\ LastSent.center_hz = centerHz
        /\ LastSent.bandwidth_hz = rightHz - leftHz


\* C33: dbfsToLutIdx is monotone and bounded on integer samples: for a frame of two
\* samples v1 <= v2 painted on a blank raster, 0 <= idx(v1) <= idx(v2) <= 255, with
\* idx(-120) = 0 and idx(-20) = 255, and the top row shows it: every pixel holds
\* idx(v1) or idx(v2), and no pixel holds a greater index than a pixel to its right.
C33_LutIndexMonotoneBounded ==
    (/\ phase = "mounted"
     /\ ev.kind = "message"
     /\ accepted(ev.msg)
     /\ Len(ev.msg.dbfs) = 2
     /\ ev.msg.dbfs[1] <= ev.msg.dbfs[2]) =>
        LET v1 == ev.msg.dbfs[1]
            v2 == ev.msg.dbfs[2]
        IN  /\ 0 <= dbfsToLutIdx(v1)
            /\ dbfsToLutIdx(v1) <= dbfsToLutIdx(v2)
            /\ dbfsToLutIdx(v2) <= 255
            /\ v1 = -120 => dbfsToLutIdx(v1) = 0
            /\ v2 = -20 => dbfsToLutIdx(v2) = 255
            /\ \A x \in DOMAIN raster[1] :
                  /\ raster[1][x] \in {dbfsToLutIdx(v1), dbfsToLutIdx(v2)}
                  /\ \A y \in DOMAIN raster[1] : x <= y => raster[1][x] <= raster[1][y]

C33_Witness ==
    /\ phase = "mounted"
    /\ ev.kind = "message"
    /\ ev.msg.dbfs = <<-70, -20>>
    /\ canvasWidth = 2
    /\ raster[1] = <<128, 255>>

====
